---- MODULE Spec2Model ----
(***************************************************************************)
(* Model of jira_release_commits.py (JiraReleaseCommitExtractor).          *)
(*                                                                         *)
(* Text is modelled as a sequence of one-character strings, so that the    *)
(* regular expression of get_commit_ids_for_tickets, str.strip and         *)
(* str.split can be computed position by position.  A script is the        *)
(* sequence of its lines ('\n'.join of lines that contain no line feed).   *)
(***************************************************************************)
EXTENDS Integers, Sequences, FiniteSets, TLC

VARIABLES
    pc,                    \* position of the process in main()/run()
    exit_code,             \* -1 while running, 0 normal end, 1 sys.exit(1) or uncaught exception
    tz,                    \* local time zone of the process (environment)
    repo_commits,          \* what self.repo.iter_commits() yields (environment)
    srv_tickets,           \* issues of the release as the tracker holds them now
    srv_total,             \* the total the tracker reports (Missing when the field is absent)
    srv_inserts,           \* issues added to the release while the run was paginating
    lookup_calls,          \* number of GET /version/<id> requests issued
    requests,              \* startAt of every GET /search request issued, in order
    pages,                 \* len(issues) of every search response received, in order
    release_name,          \* the release lookup: [status, has_name, name], name = release_info.get("name")
    all_issues, start_at, total,                       \* locals of get_tasks_in_release
    all_commits, ticket_keys, ci, ti, commits, unique_commit_hashes,
                                                       \* locals of get_commit_ids_for_tickets
    ordered_commits,       \* result of order_commits_chronologically
    script_content,        \* lines built by generate_cherry_pick_script
    output_file,           \* the file at self.output_file: [exists, lines, mode]
    key, message, matched  \* matcher applied to one (ticket key, commit message) pair

vars == <<pc, exit_code, tz, repo_commits, srv_tickets, srv_total, srv_inserts, lookup_calls,
          requests, pages, release_name, all_issues, start_at, total,
          all_commits, ticket_keys, ci, ti, commits, unique_commit_hashes,
          ordered_commits, script_content, output_file, key, message, matched>>

----------------------------------------------------------------------------
(* Characters *)

UpperSeq == <<"A","B","C","D","E","F","G","H","I","J","K","L","M",
              "N","O","P","Q","R","S","T","U","V","W","X","Y","Z">>
LowerSeq == <<"a","b","c","d","e","f","g","h","i","j","k","l","m",
              "n","o","p","q","r","s","t","u","v","w","x","y","z">>
DigitChars == {"0","1","2","3","4","5","6","7","8","9"}
LetterChars == {UpperSeq[i] : i \in 1..26} \cup {LowerSeq[i] : i \in 1..26}
LF == "\n"
WhitespaceChars == {" ", LF, "\t", "\r"}

\* \w of the pattern
IsWordChar(c) == c \in LetterChars \cup DigitChars \cup {"_"}

\* \d of the pattern
IsDigit(c) == c \in DigitChars

\* re.IGNORECASE compares characters by their case-folded form
CaseSensitiveFold(c) == c

Fold(c) ==
    IF \E i \in 1..26 : UpperSeq[i] = c
    THEN LowerSeq[CHOOSE i \in 1..26 : UpperSeq[i] = c]
    ELSE c

----------------------------------------------------------------------------
(* re.search(rf'(?<!\w){ticket_key}(?!\d)', commit_message, re.IGNORECASE) *)
(* for a ticket key made of letters, digits, '_' and '-' (no regex         *)
(* metacharacter): the engine tries the start positions left to right.     *)

\* the pattern anchored at 1-based position pos, with a word boundary after the key
MatchAtWordBoundaryAfter(ticket_key, commit_message, pos) ==
    /\ pos + Len(ticket_key) - 1 <= Len(commit_message)
    /\ (pos = 1 \/ ~IsWordChar(commit_message[pos - 1]))
    /\ \A j \in 1..Len(ticket_key) :
          Fold(commit_message[pos + j - 1]) = Fold(ticket_key[j])
    /\ \/ pos + Len(ticket_key) > Len(commit_message)
       \/ ~IsWordChar(commit_message[pos + Len(ticket_key)])

\* the pattern anchored at 1-based position pos
MatchAt(ticket_key, commit_message, pos) ==
    /\ pos + Len(ticket_key) - 1 <= Len(commit_message)
    /\ (pos = 1 \/ ~IsWordChar(commit_message[pos - 1]))              \* (?<!\w)
    /\ \A j \in 1..Len(ticket_key) :
          Fold(commit_message[pos + j - 1]) = Fold(ticket_key[j])     \* {ticket_key}
    /\ \/ pos + Len(ticket_key) > Len(commit_message)                 \* (?!\d)
       \/ ~IsDigit(commit_message[pos + Len(ticket_key)])

RECURSIVE SearchFrom(_, _, _)
SearchFrom(ticket_key, commit_message, pos) ==
    IF pos > Len(commit_message) + 1 THEN 0
    ELSE IF MatchAt(ticket_key, commit_message, pos) THEN pos
    ELSE SearchFrom(ticket_key, commit_message, pos + 1)

\* start of the match object returned by re.search, 0 for None
re_search(ticket_key, commit_message) == SearchFrom(ticket_key, commit_message, 1)

\* truth value of the re.search(...) condition of line 154
matches(ticket_key, commit_message) == re_search(ticket_key, commit_message) # 0

----------------------------------------------------------------------------
(* Bounds of the explored inputs *)

MaxRelease == 237      \* largest number of issues the tracker holds for the release (fetch runs)
MaxInserts == 1        \* issues added to the release while a run paginates
MaxMsgLen == 5         \* longest exhaustively enumerated commit message (matcher runs)
MaxRunTickets == 2     \* longest ticket list of a whole run
MaxCommits == 3        \* longest commit log of a whole run

----------------------------------------------------------------------------
(* Ticket keys *)

DigitSeq == <<"0","1","2","3","4","5","6","7","8","9">>

RECURSIVE Decimal(_)
Decimal(n) ==
    IF n < 10 THEN <<DigitSeq[n + 1]>>
    ELSE Decimal(n \div 10) \o <<DigitSeq[(n % 10) + 1]>>

\* issue['key'] of the n-th issue of project ABC
KeyOf(n) == <<"A","B","C","-">> \o Decimal(n)

ABC_1 == KeyOf(1)
ABC_2 == KeyOf(2)
ABC_12 == KeyOf(12)
PROJ_1 == <<"P","R","O","J","-","1">>
PROJ_12 == <<"P","R","O","J","-","1","2">>
A_1 == <<"A","-","1">>
OLD_1 == <<"O","L","D","-","1">>

\* an issue object of a search response (only 'key' is read, line 145)
Issue(k) == [key |-> k]

----------------------------------------------------------------------------
(* _make_jira_request and get_tasks_in_release *)

max_results == 100
None == -1             \* total = None
Missing == -1          \* the response carries no 'total' field

Min(a, b) == IF a < b THEN a ELSE b

\* s[from..to], empty when from > to
Slice(s, from, to) == [i \in 1..(IF to >= from THEN to - from + 1 ELSE 0) |-> s[from + i - 1]]

\* release_name is falsy only when it is None
NotNoneName(release_info) == release_info.has_name

\* 'release_name' is truthy (line 80: if not release_name -> exit)
NameResolved(release_info) == release_info.has_name /\ release_info.name # ""

\* response.get('total', 0)
ResponseTotal(reported) == IF reported = Missing THEN 0 ELSE reported

\* the page the tracker answers to startAt/maxResults
ServePage(tickets, startAt, maxResults) ==
    Slice(tickets, startAt + 1, Min(startAt + maxResults, Len(tickets)))

\* the loop goes on after a short page
ShortPageContinues(issues) == FALSE

\* line 122: if len(issues) < max_results: break
ShortPageBreak(issues) == Len(issues) < max_results

\* the loop goes on only while a whole further page fits under the total
LoopContinuesWholePage(start, tot) == tot = None \/ start + max_results <= tot

\* line 97: while total is None or start_at < total
LoopContinues(start, tot) == tot = None \/ start < tot

\* sys.exit(1), or an exception nobody catches
Exit1 == pc' = "exit" /\ exit_code' = 1

env_vars == <<tz, repo_commits>>
fetch_vars == <<all_issues, start_at, total>>
scan_vars == <<all_commits, ticket_keys, ci, ti, commits, unique_commit_hashes>>
script_vars == <<ordered_commits, script_content, output_file>>
match_vars == <<key, message, matched>>
server_vars == <<srv_tickets, srv_total, srv_inserts>>

\* lines 76-92: the release lookup, the name check and the loop's initialisation
GetReleaseInfo ==
    /\ pc = "get_tasks_in_release"
    /\ lookup_calls' = lookup_calls + 1
    /\ \/ \* requests.get / raise_for_status raises RequestException (lines 244-249)
          /\ release_name' = [status |-> "RequestException", has_name |-> FALSE, name |-> ""]
          /\ Exit1
          /\ UNCHANGED fetch_vars
       \/ \E info \in { [status |-> "ok", has_name |-> FALSE, name |-> ""],
                        [status |-> "ok", has_name |-> TRUE, name |-> ""],
                        [status |-> "ok", has_name |-> TRUE, name |-> "Sprint 42"] } :
          /\ release_name' = info
          /\ IF ~NameResolved(info)
             THEN Exit1 /\ UNCHANGED fetch_vars
             ELSE /\ pc' = "search"
                  /\ all_issues' = <<>>
                  /\ start_at' = 0
                  /\ total' = None
                  /\ UNCHANGED exit_code
    /\ UNCHANGED <<env_vars, server_vars, requests, pages, scan_vars, script_vars, match_vars>>

\* lines 97-123: one iteration of the pagination loop, up to the next loop test
SearchPage ==
    /\ pc = "search"
    /\ requests' = Append(requests, start_at)
    /\ \/ \* RequestException (lines 244-249)
          /\ Exit1
          /\ UNCHANGED <<server_vars, pages, fetch_vars>>
       \/ \E inserted \in {n \in 0..1 : srv_inserts + n <= MaxInserts} :
          LET held == IF inserted = 1 THEN <<Issue(OLD_1)>> \o srv_tickets ELSE srv_tickets
              issues == ServePage(held, start_at, max_results)
              new_total == IF total = None THEN ResponseTotal(srv_total) ELSE total
          IN  /\ srv_tickets' = held
              /\ srv_inserts' = srv_inserts + inserted
              /\ UNCHANGED srv_total
              /\ pages' = Append(pages, Len(issues))
              /\ UNCHANGED exit_code
              /\ IF Len(issues) = 0
                 THEN /\ pc' = "fetched"                              \* line 108: break
                      /\ UNCHANGED fetch_vars
                 ELSE /\ all_issues' = all_issues \o issues
                      /\ total' = new_total
                      /\ start_at' = start_at + Len(issues)
                      /\ pc' = IF ShortPageBreak(issues) THEN "fetched"
                               ELSE IF LoopContinues(start_at', new_total) THEN "search"
                               ELSE "fetched"
    /\ UNCHANGED <<env_vars, lookup_calls, release_name, scan_vars, script_vars, match_vars>>

----------------------------------------------------------------------------
(* Commit messages used as inputs *)

MSG_fixes_PROJ_12 == <<"f","i","x","e","s"," ","P","R","O","J","-","1","2">>
MSG_fixes_PROJ_12_today == <<"f","i","x","e","s"," ","P","R","O","J","-","1","2"," ","t","o","d","a","y">>
MSG_xPROJ_12 == <<"x","P","R","O","J","-","1","2">>
MSG_later_occurrence == <<"A","-","1","1"," ","A","-","1">>
MSG_trailing_punctuation == <<"(","P","R","O","J","-","1","2",")">>
MSG_ABC_1_fix == <<"A","B","C","-","1"," ","f","i","x">>
MSG_unrelated == <<"u","n","r","e","l","a","t","e","d">>
MSG_ABC_2_and_ABC_1_combined == <<"A","B","C","-","2"," ","a","n","d"," ","A","B","C","-","1"," ","c","o","m","b","i","n","e","d">>
MSG_multiline == <<"\n"," ","a","b","c","-","2",":"," ","f","i","x","\n","\n","b","o","d","y"," ","A","B","C","-","1","2"," ","\n">>
MSG_lowercase_12 == <<"a","b","c","-","1","2"," ","a","b","c","-","1">>
MSG_ABC_2 == <<"A","B","C","-","2">>

----------------------------------------------------------------------------
(* The matcher applied to one pair *)

Alphabet == {"A", "a", "-", "1", "_", " "}
a_1 == <<"a","-","1">>

BoundedSeq(S, n) == UNION {[1..k -> S] : k \in 0..n}

ExamplePairs ==
    { <<PROJ_1, MSG_fixes_PROJ_12>>, <<PROJ_12, MSG_fixes_PROJ_12_today>>,
      <<PROJ_12, MSG_xPROJ_12>>, <<A_1, MSG_later_occurrence>>,
      <<PROJ_12, MSG_trailing_punctuation>>, <<ABC_12, MSG_lowercase_12>>,
      <<ABC_1, MSG_ABC_2_and_ABC_1_combined>> }

MatchInputs ==
    {<<k, m>> : k \in {A_1, a_1}, m \in BoundedSeq(Alphabet, MaxMsgLen)} \cup ExamplePairs

\* values of the variables a run has not assigned yet
Pending == [status |-> "pending", has_name |-> FALSE, name |-> ""]
NoFile == [exists |-> FALSE, lines |-> <<>>, mode |-> "none"]

InitIdle ==
    /\ exit_code = -1
    /\ lookup_calls = 0 /\ requests = <<>> /\ pages = <<>>
    /\ release_name = Pending
    /\ all_issues = <<>> /\ start_at = 0 /\ total = None
    /\ all_commits = <<>> /\ ticket_keys = <<>> /\ ci = 0 /\ ti = 0
    /\ commits = <<>> /\ unique_commit_hashes = {}
    /\ ordered_commits = <<>> /\ script_content = <<>> /\ output_file = NoFile
    /\ matched = FALSE

InitMatch ==
    /\ InitIdle
    /\ pc = "matcher"
    /\ tz = "UTC" /\ repo_commits = <<>>
    /\ srv_tickets = <<>> /\ srv_total = 0 /\ srv_inserts = 0
    /\ \E p \in MatchInputs : key = p[1] /\ message = p[2]

\* line 154 evaluated for one ticket key and one commit message
ApplyMatcher ==
    /\ pc = "matcher"
    /\ matched' = matches(key, message)
    /\ pc' = "matched"
    /\ UNCHANGED <<exit_code, env_vars, server_vars, lookup_calls, requests, pages, release_name,
                   fetch_vars, scan_vars, script_vars, key, message>>

NextMatch == ApplyMatcher

SpecMatch == InitMatch /\ [][NextMatch]_vars

----------------------------------------------------------------------------
(* get_tasks_in_release against a tracker holding n issues *)

ReleaseOf(n) == [i \in 1..n |-> Issue(KeyOf(i))]

\* totals a tracker may report for n issues: none, too small, exact, too large
TotalsFor(n) == {Missing, n, n + 1, n + max_results} \cup (IF n > 0 THEN {n - 1} ELSE {})

InitFetch ==
    /\ InitIdle
    /\ pc = "get_tasks_in_release"
    /\ tz = "UTC" /\ repo_commits = <<>>
    /\ srv_inserts = 0
    /\ key = <<>> /\ message = <<>>
    /\ \E n \in 0..MaxRelease :
          /\ srv_tickets = ReleaseOf(n)
          /\ srv_total \in TotalsFor(n)

NextFetch == GetReleaseInfo \/ SearchPage

SpecFetch == InitFetch /\ [][NextFetch]_vars

----------------------------------------------------------------------------
(* Properties of the matcher (SpecMatch) *)

SameCharIgnoringCase(a, b) ==
    a = b \/ \E i \in 1..26 : {a, b} = {UpperSeq[i], LowerSeq[i]}

\* K occurs in M at position i, after a non-word character (or the start) and
\* before a non-digit (or the end)
BoundedOccurrence(K, M, i) ==
    /\ i + Len(K) - 1 <= Len(M)
    /\ \A j \in 1..Len(K) : SameCharIgnoringCase(M[i + j - 1], K[j])
    /\ (i > 1 => M[i - 1] \notin LetterChars \cup DigitChars \cup {"_"})
    /\ (i + Len(K) <= Len(M) => M[i + Len(K)] \notin DigitChars)

\* Cmt2: the matcher is true iff some occurrence of the key (case-insensitive) has no
\* word character right before it and no digit right after it; a later occurrence
\* suffices, a trailing letter or punctuation still matches, and the three examples
\* of the specification come out false, true, false.
Thm_C2_MatcherBoundaries ==
    pc = "matched" =>
        /\ matched = (\E i \in 1..Len(message) : BoundedOccurrence(key, message, i))
        /\ (key = PROJ_1 /\ message = MSG_fixes_PROJ_12 => ~matched)
        /\ (key = PROJ_12 /\ message = MSG_fixes_PROJ_12_today => matched)
        /\ (key = PROJ_12 /\ message = MSG_xPROJ_12 => ~matched)
        /\ (key = PROJ_12 /\ message = MSG_trailing_punctuation => matched)
        /\ (key = A_1 /\ message = <<"A","-","1","a">> => matched)

\* the first occurrence of A-1 is followed by a digit, the second one matches
Wit_C2_LaterOccurrence ==
    /\ pc = "matched" /\ matched
    /\ key = A_1 /\ message = MSG_later_occurrence
    /\ ~BoundedOccurrence(key, message, 1)

----------------------------------------------------------------------------
(* Properties of get_tasks_in_release (SpecFetch) *)

HeldIssues == Len(srv_tickets)
ReportedTotal == IF srv_total = Missing THEN 0 ELSE srv_total
LastPageOffset == (HeldIssues \div max_results) * max_results

\* the tracker serves HeldIssues issues as full pages followed by a shorter, non-empty one
ServedInPages ==
    /\ pc = "fetched"
    /\ srv_inserts = 0
    /\ HeldIssues % max_results # 0

\* every page was requested once, at the offset accumulated so far, and all issues returned
FetchedEveryPage ==
    /\ Len(all_issues) = HeldIssues
    /\ Len(requests) = HeldIssues \div max_results + 1
    /\ \A i \in 1..Len(requests) : requests[i] = (i - 1) * max_results
    /\ pages = [i \in 1..Len(requests) |->
                   IF i < Len(requests) THEN max_results ELSE HeldIssues % max_results]
    /\ (HeldIssues = 237 => Len(all_issues) = 237 /\ Len(requests) = 3)

\* Cmt5 as stated: full pages followed by a shorter last page are all fetched, one
\* request per page, whatever total the tracker reports.
Orig_C5_AllPagesFetched == ServedInPages => FetchedEveryPage

\* Cmt5 amended: the same, provided the total reported with the first page exceeds the
\* number of issues on the pages before the last one.
Thm_C5_AllPagesFetchedUnderTotal ==
    (ServedInPages /\ (LastPageOffset = 0 \/ ReportedTotal > LastPageOffset))
        => FetchedEveryPage

Wit_C5_Pages_100_100_37 ==
    /\ pc = "fetched" /\ srv_inserts = 0
    /\ HeldIssues = 237 /\ srv_total = 237
    /\ pages = <<100, 100, 37>>
    /\ requests = <<0, 100, 200>>
    /\ Len(all_issues) = 237

\* Cmt6: a page shorter than the requested size (an empty one included) is the last
\* page received: the loop has stopped and no further search request is issued,
\* also when the reported total is larger than the number of issues.
Thm_C6_ShortPageStopsLoop ==
    \A i \in 1..Len(pages) :
        pages[i] < max_results =>
            /\ i = Len(pages)
            /\ pc = "fetched"
            /\ Len(requests) = Len(pages)

\* the total says more issues remain, the short page stopped the loop all the same
Wit_C6_TotalTooLarge ==
    /\ pc = "fetched"
    /\ Len(pages) >= 2
    /\ pages[Len(pages)] < max_results
    /\ srv_total # Missing /\ srv_total > HeldIssues
    /\ start_at < total

\* C7: no two returned tickets share a key, whatever pages the tracker returns.
Orig_C7_ReturnedKeysUnique ==
    pc = "fetched" =>
        \A i, j \in 1..Len(all_issues) :
            all_issues[i].key = all_issues[j].key => i = j

----------------------------------------------------------------------------
(* get_commit_ids_for_tickets *)

\* str.strip(): leading and trailing whitespace removed
RECURSIVE lstrip(_)
lstrip(s) == IF s # <<>> /\ Head(s) \in WhitespaceChars THEN lstrip(Tail(s)) ELSE s

RECURSIVE rstrip(_)
rstrip(s) ==
    IF s # <<>> /\ s[Len(s)] \in WhitespaceChars THEN rstrip(SubSeq(s, 1, Len(s) - 1)) ELSE s

strip(s) == rstrip(lstrip(s))

\* the zone rule of the process: seconds east of UTC at POSIX time t
utcoffset(zone, t) ==
    IF zone = "America/New_York"
    THEN (IF t >= 1678604400 /\ t < 1699164000 THEN 0 - 14400 ELSE 0 - 18000)
    ELSE 0

\* datetime.fromtimestamp(t): the naive local wall-clock time, as seconds on the
\* local calendar; naive datetimes compare by this value (fold is ignored)
fromtimestamp(zone, t) == t + utcoffset(zone, t)

\* the hash is never taken as processed
NeverProcessed(commit_hash, processed) == FALSE

\* line 157: if commit_hash in unique_commit_hashes
AlreadyProcessed(commit_hash, processed) == commit_hash \in processed

\* the hash is not recorded
AddNothing(processed, commit_hash) == processed

\* line 166: unique_commit_hashes.add(commit_hash)
AddHash(processed, commit_hash) == processed \cup {commit_hash}

\* lines 160-165
Association(ticket_key, commit) ==
    [ ticket_key |-> ticket_key,
      commit_hash |-> commit.hexsha,
      commit_date |-> fromtimestamp(tz, commit.committed_date),
      commit_message |-> strip(commit.message) ]

\* lines 138-145
StartScan ==
    /\ pc = "fetched"
    /\ commits' = <<>>
    /\ unique_commit_hashes' = {}
    /\ all_commits' = repo_commits
    /\ ticket_keys' = [i \in 1..Len(all_issues) |-> all_issues[i].key]
    /\ ci' = 1 /\ ti' = 1
    /\ pc' = IF repo_commits = <<>> \/ all_issues = <<>> THEN "order" ELSE "scan"
    /\ UNCHANGED <<exit_code, env_vars, server_vars, lookup_calls, requests, pages,
                   release_name, fetch_vars, script_vars, match_vars>>

\* lines 148-166: the body of the inner loop for one (commit, ticket key) pair
ScanStep ==
    /\ pc = "scan"
    /\ LET commit == all_commits[ci]
           ticket_key == ticket_keys[ti]
           emit == /\ matches(ticket_key, commit.message)
                   /\ ~AlreadyProcessed(commit.hexsha, unique_commit_hashes)
       IN  /\ commits' = IF emit THEN Append(commits, Association(ticket_key, commit))
                         ELSE commits
           /\ unique_commit_hashes' =
                 IF emit THEN AddHash(unique_commit_hashes, commit.hexsha)
                 ELSE unique_commit_hashes
    /\ IF ti < Len(ticket_keys)
       THEN ti' = ti + 1 /\ UNCHANGED <<ci, pc>>
       ELSE /\ ti' = 1
            /\ ci' = ci + 1
            /\ pc' = IF ci < Len(all_commits) THEN "scan" ELSE "order"
    /\ UNCHANGED <<exit_code, env_vars, server_vars, lookup_calls, requests, pages,
                   release_name, fetch_vars, all_commits, ticket_keys, script_vars,
                   match_vars>>

----------------------------------------------------------------------------
(* order_commits_chronologically *)

\* x placed after every element whose key is not greater (s is sorted)
InsertByDate(s, x) ==
    LET p == Cardinality({i \in 1..Len(s) : s[i].commit_date <= x.commit_date})
    IN  SubSeq(s, 1, p) \o <<x>> \o SubSeq(s, p + 1, Len(s))

\* sorted(commits, key=lambda x: x['commit_date'])
RECURSIVE sorted(_)
sorted(s) ==
    IF s = <<>> THEN <<>>
    ELSE InsertByDate(sorted(SubSeq(s, 1, Len(s) - 1)), s[Len(s)])

\* line 267
OrderCommits ==
    /\ pc = "order"
    /\ ordered_commits' = sorted(commits)
    /\ pc' = "generate"
    /\ UNCHANGED <<exit_code, env_vars, server_vars, lookup_calls, requests, pages,
                   release_name, fetch_vars, scan_vars, script_content, output_file,
                   match_vars>>

----------------------------------------------------------------------------
(* generate_cherry_pick_script *)

\* the command line of the usage example (line 14)
release_id == "1234"
target_branch == "release/v1.0"

\* commit['commit_message'].split(chr(10))[0]
RECURSIVE first_line(_)
first_line(s) ==
    IF s = <<>> \/ Head(s) = LF THEN <<>>
    ELSE <<Head(s)>> \o first_line(Tail(s))

\* lines 193-207; a line is the tuple of the pieces of its f-string
script_header ==
    << <<"#!/bin/bash">>,
       <<"">>,
       <<"# Cherry-pick script for JIRA release ", release_id>>,
       <<"# Generated on ", "%Y-%m-%d %H:%M:%S">>,
       <<"">>,
       <<"# Exit on error">>,
       <<"set -e">>,
       <<"">>,
       <<"# Checkout the target branch">>,
       <<"git checkout ", target_branch>>,
       <<"">>,
       <<"# Cherry-pick each commit">>,
       <<"">> >>

\* lines 209-212
RECURSIVE commit_lines(_)
commit_lines(ordered) ==
    IF ordered = <<>> THEN <<>>
    ELSE LET commit == Head(ordered)
         IN  << <<"# ", commit.ticket_key, ": ", first_line(commit.commit_message)>>,
                <<"git cherry-pick --strategy=recursive -X theirs ", commit.commit_hash>>,
                <<"">> >> \o commit_lines(Tail(ordered))

success_line == <<"echo 'Cherry-picking completed successfully!'">>

Reverse(s) == [i \in 1..Len(s) |-> s[Len(s) + 1 - i]]

\* the commits are replayed newest first
script_lines_newest_first(ordered) ==
    script_header \o commit_lines(Reverse(ordered)) \o <<success_line>>

\* lines 193-214
script_lines(ordered) ==
    script_header \o commit_lines(ordered) \o <<success_line>>

\* lines 193-214
BuildScript ==
    /\ pc = "generate"
    /\ script_content' = script_lines(ordered_commits)
    /\ pc' = "open"
    /\ UNCHANGED <<exit_code, env_vars, server_vars, lookup_calls, requests, pages,
                   release_name, fetch_vars, scan_vars, ordered_commits, output_file,
                   match_vars>>

\* line 217: open(self.output_file, 'w') creates the file empty, or raises OSError
OpenFile ==
    /\ pc = "open"
    /\ \/ /\ output_file' = [exists |-> TRUE, lines |-> <<>>, mode |-> "0644"]
          /\ pc' = "write"
          /\ UNCHANGED exit_code
       \/ /\ Exit1
          /\ UNCHANGED output_file
    /\ UNCHANGED <<env_vars, server_vars, lookup_calls, requests, pages, release_name,
                   fetch_vars, scan_vars, ordered_commits, script_content, match_vars>>

\* line 218 and the close of the with block: everything is written, or OSError is
\* raised with only a prefix on disk
WriteFile ==
    /\ pc = "write"
    /\ \/ /\ output_file' = [output_file EXCEPT !.lines = script_content]
          /\ pc' = "chmod"
          /\ UNCHANGED exit_code
       \/ \E n \in 0..(Len(script_content) - 1) :
          /\ output_file' = [output_file EXCEPT !.lines = SubSeq(script_content, 1, n)]
          /\ Exit1
    /\ UNCHANGED <<env_vars, server_vars, lookup_calls, requests, pages, release_name,
                   fetch_vars, scan_vars, ordered_commits, script_content, match_vars>>

\* lines 221-224, 272-273: os.chmod(self.output_file, 0o755), then run() and main() return
Chmod ==
    /\ pc = "chmod"
    /\ \/ /\ output_file' = [output_file EXCEPT !.mode = "0755"]
          /\ pc' = "done"
          /\ exit_code' = 0
       \/ /\ Exit1
          /\ UNCHANGED output_file
    /\ UNCHANGED <<env_vars, server_vars, lookup_calls, requests, pages, release_name,
                   fetch_vars, scan_vars, ordered_commits, script_content, match_vars>>

----------------------------------------------------------------------------
(* main(): the constructor, then run() *)

\* lines 36-56, 258
Construct ==
    /\ pc = "main"
    /\ \E credentials_set \in BOOLEAN, repo_valid \in BOOLEAN :
          IF ~credentials_set THEN Exit1                       \* lines 45-47
          ELSE IF ~repo_valid THEN Exit1                       \* lines 51-56
          ELSE pc' = "get_tasks_in_release" /\ UNCHANGED exit_code
    /\ UNCHANGED <<env_vars, server_vars, lookup_calls, requests, pages, release_name,
                   fetch_vars, scan_vars, script_vars, match_vars>>

\* the commits a repository may hold
Commit(h, t, m) == [hexsha |-> h, committed_date |-> t, message |-> m]
Cmt1 == Commit("c1", 100, MSG_ABC_1_fix)
Cmt2 == Commit("c2", 50, MSG_unrelated)
Cmt3 == Commit("c3", 200, MSG_ABC_2_and_ABC_1_combined)
Cmt4 == Commit("c4", 1699163400, MSG_multiline)
Cmt5 == Commit("c5", 1699164600, MSG_ABC_2)
Cmt6 == Commit("c6", 100, MSG_lowercase_12)
CommitPool == {Cmt1, Cmt2, Cmt3, Cmt4, Cmt5, Cmt6}

\* commit logs: sequences of distinct commits
Logs == {l \in BoundedSeq(CommitPool, MaxCommits) :
            \A i, j \in 1..Len(l) : l[i] = l[j] => i = j}

RunKeys == {ABC_1, ABC_2}
Zones == {"UTC", "America/New_York"}

InitRun ==
    /\ InitIdle
    /\ pc = "main"
    /\ key = <<>> /\ message = <<>>
    /\ tz \in Zones
    /\ srv_inserts = MaxInserts          \* the release does not change during a whole run
    /\ repo_commits \in Logs
    /\ \E ks \in BoundedSeq(RunKeys, MaxRunTickets) :
          /\ srv_tickets = [i \in 1..Len(ks) |-> Issue(ks[i])]
          /\ srv_total = Len(ks)

Next ==
    \/ Construct
    \/ GetReleaseInfo
    \/ SearchPage
    \/ StartScan
    \/ ScanStep
    \/ OrderCommits
    \/ BuildScript
    \/ OpenFile
    \/ WriteFile
    \/ Chmod

Spec == InitRun /\ [][Next]_vars

----------------------------------------------------------------------------
(* Properties of a whole run (Spec) *)

ScanDone == pc \in {"order", "generate", "open", "write", "chmod", "done"}
Ordered == pc \in {"generate", "open", "write", "chmod", "done"}
ScriptBuilt == pc \in {"open", "write", "chmod", "done"}

\* the ticket keys, by position in the fetched list, that the message references
Referencing(commit) ==
    {t \in 1..Len(ticket_keys) :
        \E i \in 1..Len(commit.message) :
            BoundedOccurrence(ticket_keys[t], commit.message, i)}

AssociationsOf(commit) ==
    {a \in 1..Len(commits) : commits[a].commit_hash = commit.hexsha}

Least(S) == CHOOSE x \in S : \A y \in S : x <= y

\* C1: at every step of the scan and after it, the association list holds at most
\* one association per commit hash.
Thm_C1_OneAssociationPerHash ==
    \A a, b \in 1..Len(commits) :
        commits[a].commit_hash = commits[b].commit_hash => a = b

\* a scanned commit references the ticket list at two positions or more
Wit_C1_CommitMatchesTwice ==
    /\ ScanDone
    /\ \E c \in 1..Len(all_commits) :
          /\ Cardinality(Referencing(all_commits[c])) >= 2
          /\ AssociationsOf(all_commits[c]) # {}

\* C3: after the scan a commit has an association iff its message references some
\* ticket key, and the association carries the first such key in fetch order; in
\* the end-to-end scenario the result is ABC-1 -> c1 and ABC-1 -> c3, without c2.
Thm_C3_FirstMatchingKeyWins ==
    ScanDone =>
        /\ \A c \in 1..Len(all_commits) :
              LET commit == all_commits[c]
              IN  IF Referencing(commit) = {}
                  THEN AssociationsOf(commit) = {}
                  ELSE /\ AssociationsOf(commit) # {}
                       /\ \A a \in AssociationsOf(commit) :
                             commits[a].ticket_key = ticket_keys[Least(Referencing(commit))]
        /\ \A a \in 1..Len(commits) :
              \E c \in 1..Len(all_commits) : all_commits[c].hexsha = commits[a].commit_hash
        /\ (ticket_keys = <<ABC_1, ABC_2>> /\ all_commits = <<Cmt1, Cmt2, Cmt3>>
               => [a \in 1..Len(commits) |-> <<commits[a].ticket_key, commits[a].commit_hash>>]
                     = << <<ABC_1, "c1">>, <<ABC_1, "c3">> >>)

Wit_C3_Scenario ==
    /\ ScanDone
    /\ ticket_keys = <<ABC_1, ABC_2>>
    /\ all_commits = <<Cmt1, Cmt2, Cmt3>>
    /\ Len(commits) = 2

\* committed_date of the commit an association was made from
TimestampOf(assoc) ==
    LET c == CHOOSE c \in 1..Len(all_commits) : all_commits[c].hexsha = assoc.commit_hash
    IN  all_commits[c].committed_date

ScanPosition(assoc) == CHOOSE a \in 1..Len(commits) : commits[a] = assoc

\* C4: the ordered list is a permutation of the scan's list in which an earlier
\* commit timestamp always comes first and equal timestamps keep the scan order.
Orig_C4_ChronologicalStable ==
    Ordered =>
        /\ Len(ordered_commits) = Len(commits)
        /\ \A a \in 1..Len(commits) :
              \E o \in 1..Len(ordered_commits) : ordered_commits[o] = commits[a]
        /\ \A i, j \in 1..Len(ordered_commits) :
              LET x == ordered_commits[i]
                  y == ordered_commits[j]
              IN  /\ TimestampOf(x) < TimestampOf(y) => i < j
                  /\ (TimestampOf(x) = TimestampOf(y) /\ ScanPosition(x) < ScanPosition(y))
                        => i < j

\* C8: a run that has ended left either a complete executable script, or no file.
Orig_C8_CompleteScriptOrNone ==
    exit_code # -1 =>
        \/ ~output_file.exists
        \/ /\ exit_code = 0
           /\ output_file.lines = script_content
           /\ script_content # <<>>
           /\ output_file.mode = "0755"

\* C9: when the release lookup fails or yields no name or an empty name, the run
\* has exited fatally after one lookup call, without any search call, commit scan
\* or script.
Thm_C9_UnresolvedReleaseIsFatal ==
    (release_name.status # "pending" /\ ~(release_name.has_name /\ release_name.name # ""))
        => /\ pc = "exit" /\ exit_code = 1
           /\ lookup_calls = 1
           /\ requests = <<>> /\ pages = <<>>
           /\ all_commits = <<>> /\ ci = 0 /\ commits = <<>>
           /\ script_content = <<>>
           /\ ~output_file.exists

Wit_C9_EmptyName ==
    /\ pc = "exit"
    /\ release_name = [status |-> "ok", has_name |-> TRUE, name |-> ""]
    /\ lookup_calls = 1

CommentHeads ==
    {"#!/bin/bash", "# Cherry-pick script for JIRA release ", "# Generated on ",
     "# Exit on error", "# Checkout the target branch", "# Cherry-pick each commit", "# "}

\* a line the shell executes: neither blank nor a comment
IsCommandLine(line) == line[1] \notin CommentHeads \cup {""}

ReplayCommand(hash) == <<"git cherry-pick --strategy=recursive -X theirs ", hash>>
IsReplayCommand(line) == line[1] = "git cherry-pick --strategy=recursive -X theirs "

\* the text of m before its first line feed
UpToLineFeed(m) ==
    LET stops == {i \in 1..Len(m) : m[i] = LF} \cup {Len(m) + 1}
    IN  SubSeq(m, 1, Least(stops) - 1)

\* C10: the commands of the script are: abort on failure, the checkout of the
\* target branch, one replay command per ordered association in that order, each
\* right after a comment with its ticket key and the first line of its message,
\* and the success line last; ordered [c1, c3] gives two replay commands, c1, c3.
Thm_C10_ScriptCommandOrder ==
    ScriptBuilt =>
        LET n == Len(ordered_commits)
            commands == SelectSeq(script_content, IsCommandLine)
        IN  /\ Len(commands) = n + 3
            /\ commands[1] = <<"set -e">>
            /\ commands[2] = <<"git checkout ", target_branch>>
            /\ \A i \in 1..n : commands[2 + i] = ReplayCommand(ordered_commits[i].commit_hash)
            /\ commands[n + 3] = success_line
            /\ \A p \in 1..Len(script_content) :
                  IsReplayCommand(script_content[p]) =>
                      \E i \in 1..n :
                          /\ script_content[p] = ReplayCommand(ordered_commits[i].commit_hash)
                          /\ p > 1
                          /\ script_content[p - 1] =
                                <<"# ", ordered_commits[i].ticket_key, ": ",
                                  UpToLineFeed(ordered_commits[i].commit_message)>>
            /\ ([i \in 1..n |-> ordered_commits[i].commit_hash] = <<"c1", "c3">>
                   => SelectSeq(script_content, IsReplayCommand)
                         = <<ReplayCommand("c1"), ReplayCommand("c3")>>)

Wit_C10_TwoReplays ==
    /\ ScriptBuilt
    /\ [i \in 1..Len(ordered_commits) |-> ordered_commits[i].commit_hash] = <<"c1", "c3">>
    /\ Len(script_content) = Len(script_header) + 7

====
